---- MODULE Spec2Model ----
(***************************************************************************)
(* Model of the software PWM of gpiodzero (base/pwm.py) on top of the      *)
(* output pin wrapper PinOut (base/base.py), and of the push button        *)
(* (composants/button.py) on top of the input pin wrapper PinIn, of the    *)
(* LED (composants/led.py) and of the RGB LED (composants/ledrgb.py).      *)
(*                                                                         *)
(* The PWM object is driven by caller threads (the application) and by the *)
(* timing-loop threads that PWM.start() creates.  Every Python statement   *)
(* that reads or writes a shared attribute is one step, so the steps of    *)
(* the callers and of the loops interleave as they do under the            *)
(* interpreter.  The underlying gpiod line is the environment: a           *)
(* set_value() on it either takes effect or raises.                        *)
(***************************************************************************)
EXTENDS Integers, FiniteSets, Sequences, TLC

(***************************************************************************)
(* Bounds of the model and inputs of the calls.                            *)
(***************************************************************************)
MaxThreads == 2

Threads == 1..MaxThreads

AllCallers == {"app", "worker"}

FreqValues == {-1, 0, 1, 2}

\* duty arguments of the accessor specification: below, inside and above
\* the range of every resolution
DutyInputs == {-1, 100, 70000}

\* duty arguments and resolutions used while the timing loop runs
LoopDutyInputs == {0, 300}

LoopResolutions == {8, 16}

(***************************************************************************)
(* Program constants: the four duty resolutions.                           *)
(***************************************************************************)
Max8 == 255

Max10 == 1023

Max12 == 4095

Max16 == 65535

Resolutions == {8, 10, 12, 16}

DutyMaxOf(res) ==
    CASE res = 8 -> Max8
      [] res = 10 -> Max10
      [] res = 12 -> Max12
      [] res = 16 -> Max16

(***************************************************************************)
(* Exact arithmetic for the float expressions of the timing loop: a value  *)
(* is a fraction num/den (den # 0, of either sign).                        *)
(***************************************************************************)
Frac(n, d) == [num |-> n, den |-> d]

FZero == Frac(0, 1)

FMul(a, b) == Frac(a.num * b.num, a.den * b.den)

FSub(a, b) == Frac(a.num * b.den - b.num * a.den, a.den * b.den)

Sign(n) == IF n > 0 THEN 1 ELSE IF n < 0 THEN -1 ELSE 0

FSign(a) == Sign(a.num) * Sign(a.den)

FPositive(a) == FSign(a) > 0

FEqual(a, b) == a.num * b.den = b.num * a.den

MinOf(a, b) == IF a < b THEN a ELSE b

MaxOf(a, b) == IF a > b THEN a ELSE b

\* max(0, min(value, self.__duty_max))
ClampNoFloor(value, dmax) == MinOf(value, dmax)

Clamp(value, dmax) == MaxOf(0, MinOf(value, dmax))

\* value = 1 if value else 0
Bit(value) == IF value # 0 THEN 1 ELSE 0

VARIABLES
    frequency,   \* PWM.__frequency
    duty_value,  \* PWM.__duty_value
    duty_max,    \* PWM.__duty_max
    running,     \* PWM.__running
    thread,      \* PWM.__thread: id of the Thread object, 0 for None
    state,       \* PinOut.__state, the recorded last value
    line,        \* level of the physical line
    released,    \* the line request has been released
    thr,         \* the timing-loop threads: position and locals of each
    active,      \* the caller threads that use the object
    pc,          \* position of each caller
    cur,         \* the call each caller is executing
    lastDone,    \* history: the call that returned last, and the one before
    lastOk,      \* history: value of the most recent successful line write
    ioFailed,    \* history: some line write has raised
    pull,        \* PinIn.pull of the button: "UP", "DOWN" or "NONE"
    raw,         \* level of the button's physical line
    in_released, \* the button's line request has been released
    _last_state, \* Button._last_state
    _running,    \* Button._running
    when_pressed,  \* Button.when_pressed is set
    when_released, \* Button.when_released is set
    when_clicked,  \* Button.when_clicked is set
    mon,         \* the monitor thread: position, locals, rest of its sleep
    bpc,         \* position of the caller of the button
    bcall,       \* the button call the caller is executing
    blast,       \* history: the button call that returned last
    prompt,      \* threads run without delay: time passes only in sleeps
    flip,        \* history: the last change of the button's level
    blinking,    \* LED.__blinking
    blink_thread, \* LED.__blink_thread: id of the Thread object, 0 for None
    lwk,         \* the blink workers of the LED: position and locals
    lpc,         \* position of the caller of the LED
    lcall,       \* the LED call the caller is executing
    llast,       \* history: the LED call that returned last
    _color,      \* LEDRGB._color, each component in halves (0, 1, 2)
    _blinking,   \* LEDRGB._blinking
    _blink_thread, \* LEDRGB._blink_thread: 1 once a worker was created
    chan,        \* LEDRGB._red, _green, _blue: duty and running flag of each
    rwk,         \* the blink worker of the RGB LED: position and locals
    rpc,         \* position of the caller of the RGB LED
    rcall,       \* the RGB LED call the caller is executing
    rlast        \* history: the RGB LED call that returned last

pwmVars == <<frequency, duty_value, duty_max, running, thread>>

pinVars == <<state, line, released, lastOk, ioFailed>>

callVars == <<pc, cur, lastDone>>

btnVars == <<pull, raw, in_released, _last_state, _running, when_pressed,
             when_released, when_clicked, mon, bpc, bcall, blast, prompt, flip>>

ledVars == <<blinking, blink_thread, lwk, lpc, lcall, llast>>

rgbVars == <<_color, _blinking, _blink_thread, chan, rwk, rpc, rcall, rlast>>

lightVars == <<ledVars, rgbVars>>

vars == <<frequency, duty_value, duty_max, running, thread, state, line,
          released, thr, active, pc, cur, lastDone, lastOk, ioFailed,
          pull, raw, in_released, _last_state, _running, when_pressed,
          when_released, when_clicked, mon, bpc, bcall, blast, prompt, flip,
          blinking, blink_thread, lwk, lpc, lcall, llast,
          _color, _blinking, _blink_thread, chan, rwk, rpc, rcall, rlast>>

(***************************************************************************)
(* Records.                                                                *)
(***************************************************************************)
NoThread == [pc |-> "unborn", period |-> FZero, dv |-> 0,
             on_time |-> FZero, off_time |-> FZero]

\* a call in progress: its arguments, duty_max at its entry (max0, kept for
\* a query), the thread it joins (jt), and what it has done so far: written
\* the line, called join(), called join() on a live thread, created a thread
NoCall == [op |-> "none", res |-> 0, arg |-> 0, max0 |-> 0, jt |-> 0,
           wrote |-> FALSE, joined |-> FALSE, blocked |-> FALSE,
           spawned |-> FALSE]

\* the call that returned last.  Of the call before it the record keeps
\* what the properties below need: whether both were stop() (afterStop),
\* and, for a query, the resolution and argument of
\* an immediately preceding setter (pres, parg; pres = 0 if none).
NoDone == [op |-> "none", res |-> 0, arg |-> 0, max0 |-> 0, ret |-> 0,
           outcome |-> "ok", wrote |-> FALSE, joined |-> FALSE,
           blocked |-> FALSE, spawned |-> FALSE, afterStop |-> FALSE, pres |-> 0, parg |-> 0]

Alive(t) == thr[t].pc \in {"begin", "while", "calc", "on", "off"}

\* a Thread object that has ended and that nobody refers to any more leaves
\* its slot to the next thread created
FreeSlots == {t \in Threads : ~Alive(t) /\ \A c \in AllCallers : cur[c].jt # t}

AliveThreads == {t \in Threads : Alive(t)}

Idle == \A c \in AllCallers : pc[c] = "idle"

\* a call begins: the caller leaves "idle" with a fresh call record
Call(op, res, arg) ==
    [NoCall EXCEPT !.op = op, !.res = res, !.arg = arg]

\* a call returns (outcome "ok") or raises (outcome "raised")
Return(c, call, ret, outcome) ==
    /\ pc' = [pc EXCEPT ![c] = "idle"]
    /\ cur' = [cur EXCEPT ![c] = NoCall]
    /\ lastDone' =
         LET afterSet == call.op = "query" /\ lastDone.op = "set" IN
         [op |-> call.op, res |-> call.res, arg |-> call.arg,
          max0 |-> call.max0, ret |-> ret, outcome |-> outcome,
          wrote |-> call.wrote, joined |-> call.joined,
          blocked |-> call.blocked, spawned |-> call.spawned,
          afterStop |-> (call.op = "stop" /\ lastDone.op = "stop"),
          pres |-> IF afterSet THEN lastDone.res ELSE 0,
          parg |-> IF afterSet THEN lastDone.arg ELSE 0]

Goto(c, label, call) ==
    /\ pc' = [pc EXCEPT ![c] = label]
    /\ cur' = [cur EXCEPT ![c] = call]
    /\ UNCHANGED lastDone

(***************************************************************************)
(* PinOut.write: the recorded state is assigned first, then the line is    *)
(* set; set_value raises on a released request, and may raise on a live    *)
(* one (device gone).                                                      *)
(***************************************************************************)
WriteOutcomes == IF released THEN {FALSE} ELSE BOOLEAN

PinOut_write(value, ok) ==
    /\ state' = Bit(value)
    /\ line' = IF ok THEN Bit(value) ELSE line
    /\ lastOk' = IF ok THEN Bit(value) ELSE lastOk
    /\ ioFailed' = (ioFailed \/ ~ok)
    /\ UNCHANGED released

\* PinOut.close: release of the line request
PinOut_close ==
    /\ released' = TRUE
    /\ UNCHANGED <<state, line, lastOk, ioFailed>>

(***************************************************************************)
(* The push button: constants, records and the state of the variables of   *)
(* the button while only the PWM is in use.                                *)
(***************************************************************************)
\* time unit: one tick is the poll sleep, time.sleep(0.005)
PollTicks == 1

\* debounce_time in ticks
DebounceTicks == 3

Pulls == {"UP", "DOWN", "NONE"}

\* the age of a level is counted up to the first value above debounce + poll
MaxAge == DebounceTicks + PollTicks + 1

IsPressedInverted(p, v) ==
    CASE p = "UP" -> v = 1
      [] p = "DOWN" -> v = 1
      [] OTHER -> v # 0

\* Button.is_pressed on the level v read from the line
IsPressed(p, v) ==
    CASE p = "UP" -> v = 0
      [] p = "DOWN" -> v = 1
      [] OTHER -> v # 0

\* the monitor thread: its position, its local `state`, the rest of its
\* sleep, and of the debounce in progress the ticks since the first sample
\* (gap) and the level changes since the first sample (flips, up to 2)
NoMon == [pc |-> "none", state |-> FALSE, first |-> FALSE, left |-> 0, gap |-> 0, flips |-> 0]

\* a button call in progress: the rest of its sleep, the callbacks it has
\* invoked, the line releases it has made, whether its polls have sampled
\* pressed and then released, how far the input has gone through a press
\* (1) and a release (2) since the call began, the level is_pressed() has
\* read, its last sample
NoBCall == [op |-> "none", left |-> 0, log |-> <<>>, rel |-> 0,
            sawP |-> FALSE, sawR |-> FALSE, inp |-> 0, val |-> 0,
            res |-> FALSE]

\* the button call that returned last; afterClose: it and the call before
\* it were both close()
NoBLast == [op |-> "none", outcome |-> "ok", log |-> <<>>, rel |-> 0,
            res |-> FALSE,
            afterClose |-> FALSE]

\* the last change of the level: its age in ticks, whether the level before
\* it was the stable state, whether the callback of the new level was set,
\* whether a callback decided by the samples before it was still to be
\* invoked (pending), and the callbacks the monitor has invoked since on
\* samples taken after it (n up to 2, kind of the last one)
NoFlip == [age |-> MaxAge, fromStable |-> FALSE, reg |-> FALSE,
           pending |-> FALSE, n |-> 0, kind |-> "none"]

NoButton ==
    /\ pull = "NONE"
    /\ raw = 0
    /\ in_released = FALSE
    /\ _last_state = FALSE
    /\ _running = FALSE
    /\ when_pressed = FALSE
    /\ when_released = FALSE
    /\ when_clicked = FALSE
    /\ mon = NoMon
    /\ bpc = "idle"
    /\ bcall = NoBCall
    /\ blast = NoBLast
    /\ prompt = FALSE
    /\ flip = NoFlip

(***************************************************************************)
(* The LED: bounds, inputs, records and the state of its variables while   *)
(* no LED is in use.                                                       *)
(***************************************************************************)
MaxWorkers == 2

Workers == 1..MaxWorkers

\* count arguments of LED.blink
BlinkCounts == {1, 2}

\* a blink worker: its position, the iterations left of range(count), and
\* whether it is _blink ("count") or _blink_times ("times")
NoWorker == [pc |-> "unborn", left |-> 0, kind |-> "none"]

NoLCall == [op |-> "none", kind |-> "none", count |-> 0]

\* the LED call that returned last: whether it created a worker, and
\* whether off() has returned with no blink requested since (offDone)
NoLLast == [op |-> "none", outcome |-> "ok", spawned |-> FALSE,
            offDone |-> FALSE]

NoLed ==
    /\ blinking = FALSE
    /\ blink_thread = 0
    /\ lwk = [w \in Workers |-> NoWorker]
    /\ lpc = "idle"
    /\ lcall = NoLCall
    /\ llast = NoLLast

(***************************************************************************)
(* The RGB LED: inputs, records and the state of its variables while no    *)
(* RGB LED is in use.  A colour component is counted in halves: 0, 1, 2    *)
(* stand for 0.0, 0.5, 1.0.                                                *)
(***************************************************************************)
Channels == {"red", "green", "blue"}

\* 1.0 in halves
FullLevel == 2

\* component arguments of LEDRGB.color: below, inside and above the range
ColorInputs == {-1, 1, 3}

Black == [c \in Channels |-> 0]

\* max(0.0, min(1.0, r))
ClampLevel(h) == MaxOf(0, MinOf(FullLevel, h))

\* int(r * 65535)
DutyOfLevel(h) == (h * Max16) \div FullLevel

\* a PWM of the RGB LED after __init__ and duty_cycle_16(0)
NoChannel == [duty_value |-> 0, duty_max |-> Max16, running |-> FALSE]

\* the blink worker: its position, the iterations left of range(count);
\* history: the count and the colour current when blink() was called, the
\* on-phases it has performed, and whether each of them set the three
\* duties to that colour
NoRWorker == [pc |-> "unborn", left |-> 0, count |-> 0, col0 |-> Black,
              cycles |-> 0, good |-> TRUE]

NoRCall == [op |-> "none", count |-> 0]

NoRLast == [op |-> "none", spawned |-> FALSE]

NoRgb ==
    /\ _color = Black
    /\ _blinking = FALSE
    /\ _blink_thread = 0
    /\ chan = [c \in Channels |-> NoChannel]
    /\ rwk = NoRWorker
    /\ rpc = "idle"
    /\ rcall = NoRCall
    /\ rlast = NoRLast

NoLights == NoLed /\ NoRgb

(***************************************************************************)
(* PWM.__init__: the state after construction.  The constructor stores the *)
(* frequency it is given.                                                  *)
(***************************************************************************)
PWM_init(f) ==
    /\ frequency = f
    /\ duty_value = 0
    /\ duty_max = Max8
    /\ running = FALSE
    /\ thread = 0
    /\ state = 0
    /\ line = 0
    /\ released = FALSE
    /\ thr = [t \in Threads |-> NoThread]

Init ==
    /\ \E f \in FreqValues : PWM_init(f)
    /\ active = {"app"}
    /\ pc = [c \in AllCallers |-> "idle"]
    /\ cur = [c \in AllCallers |-> NoCall]
    /\ lastDone = NoDone
    /\ lastOk = 0
    /\ ioFailed = FALSE
    /\ NoButton
    /\ NoLights

(***************************************************************************)
(* PWM.frequency setter.                                                   *)
(***************************************************************************)
SetFrequency(c, f) ==
    /\ pc[c] = "idle"
    /\ frequency' = f
    /\ Return(c, Call("frequency", 0, 0), 0, "ok")
    /\ UNCHANGED <<duty_value, duty_max, running, thread, pinVars, thr, active, btnVars, lightVars>>

(***************************************************************************)
(* PWM.duty_cycle_8/10/12/16(value=None).  First statement: the            *)
(* denominator is assigned; then the query returns, or the numerator is    *)
(* clamped and stored.                                                     *)
(***************************************************************************)
DutyEnter(c, res, query, value) ==
    /\ pc[c] = "idle"
    /\ duty_max' = DutyMaxOf(res)
    /\ Goto(c, "duty_body",
            [Call(IF query THEN "query" ELSE "set", res,
                  IF query THEN 0 ELSE value)
               EXCEPT !.max0 = IF query THEN duty_max ELSE 0])
    /\ UNCHANGED <<frequency, duty_value, running, thread, pinVars, thr, active, btnVars, lightVars>>

DutyBody(c) ==
    /\ pc[c] = "duty_body"
    /\ IF cur[c].op = "query"
       THEN /\ Return(c, cur[c], duty_value, "ok")
            /\ UNCHANGED duty_value
       ELSE /\ duty_value' = Clamp(cur[c].arg, duty_max)
            /\ Return(c, cur[c], 0, "ok")
    /\ UNCHANGED <<frequency, duty_max, running, thread, pinVars, thr, active, btnVars, lightVars>>

(***************************************************************************)
(* PWM.start.                                                              *)
(***************************************************************************)
\* starts that have passed the test and not yet created their thread
StartsInProgress ==
    Cardinality({c \in AllCallers : pc[c] \in {"start_set", "start_spawn"}})

\* a call of start() is taken up while a thread slot is left for it
CanStart == Cardinality(FreeSlots) > StartsInProgress

StartCheckNoGuard(c) ==
    /\ pc[c] = "idle"
    /\ CanStart
    /\ Goto(c, "start_set", Call("start", 0, 0))
    /\ UNCHANGED <<pwmVars, pinVars, thr, active, btnVars, lightVars>>

\* if not self.__running:
StartCheck(c) ==
    /\ pc[c] = "idle"
    /\ CanStart
    /\ IF running
       THEN Return(c, Call("start", 0, 0), 0, "ok")
       ELSE Goto(c, "start_set", Call("start", 0, 0))
    /\ UNCHANGED <<pwmVars, pinVars, thr, active, btnVars, lightVars>>

\* self.__running = True
StartSet(c) ==
    /\ pc[c] = "start_set"
    /\ running' = TRUE
    /\ Goto(c, "start_spawn", cur[c])
    /\ UNCHANGED <<frequency, duty_value, duty_max, thread, pinVars, thr, active, btnVars, lightVars>>

\* self.__thread = threading.Thread(...); self.__thread.start()
StartSpawn(c) ==
    /\ pc[c] = "start_spawn"
    /\ FreeSlots # {}
    /\ LET t == CHOOSE x \in FreeSlots : \A y \in FreeSlots : x <= y IN
         /\ thread' = t
         /\ thr' = [thr EXCEPT ![t] = [NoThread EXCEPT !.pc = "begin"]]
    /\ Return(c, [cur[c] EXCEPT !.spawned = TRUE], 0, "ok")
    /\ UNCHANGED <<frequency, duty_value, duty_max, running, pinVars, active, btnVars, lightVars>>

(***************************************************************************)
(* PWM.stop, also as the first half of PWM.close.                          *)
(***************************************************************************)
\* where a finished stop() goes: back to the caller, or on into close()
AfterStop(c, call) ==
    IF call.op = "close"
    THEN Goto(c, "close_release", call)
    ELSE Return(c, call, 0, "ok")

StopCheckNoGuard(c, op) ==
    /\ pc[c] = "idle"
    /\ Goto(c, "stop_clear", Call(op, 0, 0))
    /\ UNCHANGED <<pwmVars, pinVars, thr, active, btnVars, lightVars>>

\* if self.__running:
StopCheck(c, op) ==
    /\ pc[c] = "idle"
    /\ IF running
       THEN Goto(c, "stop_clear", Call(op, 0, 0))
       ELSE AfterStop(c, Call(op, 0, 0))
    /\ UNCHANGED <<pwmVars, pinVars, thr, active, btnVars, lightVars>>

\* self.__running = False
StopClear(c) ==
    /\ pc[c] = "stop_clear"
    /\ running' = FALSE
    /\ Goto(c, "stop_join", cur[c])
    /\ UNCHANGED <<frequency, duty_value, duty_max, thread, pinVars, thr, active, btnVars, lightVars>>

StopJoinNoWait(c) ==
    /\ pc[c] = "stop_join"
    /\ Goto(c, "stop_write", cur[c])
    /\ UNCHANGED <<pwmVars, pinVars, thr, active, btnVars, lightVars>>

\* if self.__thread: self.__thread.join()
StopJoin(c) ==
    /\ pc[c] = "stop_join"
    /\ IF thread = 0
       THEN Goto(c, "stop_write", cur[c])
       ELSE Goto(c, "stop_wait", [cur[c] EXCEPT !.jt = thread, !.joined = TRUE,
                                                !.blocked = Alive(thread)])
    /\ UNCHANGED <<pwmVars, pinVars, thr, active, btnVars, lightVars>>

\* join() returns once the joined thread has ended
StopWait(c) ==
    /\ pc[c] = "stop_wait"
    /\ ~Alive(cur[c].jt)
    /\ Goto(c, "stop_write", [cur[c] EXCEPT !.jt = 0])
    /\ UNCHANGED <<pwmVars, pinVars, thr, active, btnVars, lightVars>>

\* super().write(0)
StopWrite(c) ==
    /\ pc[c] = "stop_write"
    /\ \E ok \in WriteOutcomes :
         /\ PinOut_write(0, ok)
         /\ LET call == [cur[c] EXCEPT !.wrote = TRUE] IN
              IF ok THEN AfterStop(c, call)
                    ELSE Return(c, call, 0, "raised")
    /\ UNCHANGED <<pwmVars, thr, active, btnVars, lightVars>>

\* PWM.close, second half: super().close()
CloseRelease(c) ==
    /\ pc[c] = "close_release"
    /\ PinOut_close
    /\ Return(c, cur[c], 0, "ok")
    /\ UNCHANGED <<pwmVars, thr, active, btnVars, lightVars>>

(***************************************************************************)
(* PWM.__pwm_thread, the timing loop of thread t.                          *)
(***************************************************************************)
\* period = 1.0 / self.__frequency      (ZeroDivisionError ends the thread)
LoopBegin(t) ==
    /\ thr[t].pc = "begin"
    /\ thr' = [thr EXCEPT ![t] =
                 IF frequency = 0
                 THEN [NoThread EXCEPT !.pc = "zerodiv"]
                 ELSE [@ EXCEPT !.pc = "while", !.period = Frac(1, frequency)]]
    /\ UNCHANGED <<pwmVars, pinVars, active, callVars, btnVars, lightVars>>

LoopWhileNoTest(t) ==
    /\ thr[t].pc = "while"
    /\ thr' = [thr EXCEPT ![t] = [@ EXCEPT !.pc = "calc", !.dv = duty_value]]
    /\ UNCHANGED <<pwmVars, pinVars, active, callVars, btnVars, lightVars>>

\* while self.__running:  ... self.__duty_value
LoopWhile(t) ==
    /\ thr[t].pc = "while"
    /\ thr' = [thr EXCEPT ![t] =
                 IF running
                 THEN [@ EXCEPT !.pc = "calc", !.dv = duty_value]
                 ELSE [NoThread EXCEPT !.pc = "done"]]
    /\ UNCHANGED <<pwmVars, pinVars, active, callVars, btnVars, lightVars>>

\* on_time = period * (dv / self.__duty_max); off_time = period - on_time
LoopCalc(t) ==
    /\ thr[t].pc = "calc"
    /\ LET on == FMul(thr[t].period, Frac(thr[t].dv, duty_max)) IN
         thr' = [thr EXCEPT ![t] =
                   [@ EXCEPT !.pc = "on", !.dv = 0, !.on_time = on,
                             !.off_time = FSub(thr[t].period, on)]]
    /\ UNCHANGED <<pwmVars, pinVars, active, callVars, btnVars, lightVars>>

\* if on_time > 0: super().write(1); time.sleep(on_time)
LoopOn(t) ==
    /\ thr[t].pc = "on"
    /\ IF FPositive(thr[t].on_time)
       THEN \E ok \in WriteOutcomes :
              /\ PinOut_write(1, ok)
              /\ thr' = [thr EXCEPT ![t] =
                           IF ok THEN [@ EXCEPT !.pc = "off"]
                                 ELSE [NoThread EXCEPT !.pc = "ioerror"]]
       ELSE /\ thr' = [thr EXCEPT ![t].pc = "off"]
            /\ UNCHANGED pinVars
    /\ UNCHANGED <<pwmVars, active, callVars, btnVars, lightVars>>

\* if off_time > 0: super().write(0); time.sleep(off_time)
LoopOff(t) ==
    /\ thr[t].pc = "off"
    /\ IF FPositive(thr[t].off_time)
       THEN \E ok \in WriteOutcomes :
              /\ PinOut_write(0, ok)
              /\ thr' = [thr EXCEPT ![t] =
                           IF ok THEN [@ EXCEPT !.pc = "while", !.on_time = FZero,
                                                !.off_time = FZero]
                                 ELSE [NoThread EXCEPT !.pc = "ioerror"]]
       ELSE /\ thr' = [thr EXCEPT ![t] =
                         [@ EXCEPT !.pc = "while", !.on_time = FZero,
                                   !.off_time = FZero]]
            /\ UNCHANGED pinVars
    /\ UNCHANGED <<pwmVars, active, callVars, btnVars, lightVars>>

(***************************************************************************)
(* The specification: one application thread uses the PWM.                 *)
(***************************************************************************)
Next ==
    \/ \E c \in active, f \in FreqValues : SetFrequency(c, f)
    \/ \E c \in active, res \in LoopResolutions, v \in LoopDutyInputs :
          DutyEnter(c, res, FALSE, v)
    \/ \E c \in active, res \in LoopResolutions : DutyEnter(c, res, TRUE, 0)
    \/ \E c \in active : DutyBody(c)
    \/ \E c \in active : StartCheck(c)
    \/ \E c \in active : StartSet(c)
    \/ \E c \in active : StartSpawn(c)
    \/ \E c \in active : StopCheck(c, "stop")
    \/ \E c \in active : StopCheck(c, "close")
    \/ \E c \in active : StopClear(c)
    \/ \E c \in active : StopJoin(c)
    \/ \E c \in active : StopWait(c)
    \/ \E c \in active : StopWrite(c)
    \/ \E c \in active : CloseRelease(c)
    \/ \E t \in Threads : LoopBegin(t)
    \/ \E t \in Threads : LoopWhile(t)
    \/ \E t \in Threads : LoopCalc(t)
    \/ \E t \in Threads : LoopOn(t)
    \/ \E t \in Threads : LoopOff(t)

Spec == Init /\ [][Next]_vars

(***************************************************************************)
(* Starting and stopping under fair scheduling: a thread that can take a   *)
(* step takes one in the end, the timing loop as well as a caller inside   *)
(* start(), stop() or a duty setter.                                       *)
(***************************************************************************)
LoopStep(t) ==
    \/ LoopBegin(t)
    \/ LoopWhile(t)
    \/ LoopCalc(t)
    \/ LoopOn(t)
    \/ LoopOff(t)

CallStep(c) ==
    \/ DutyBody(c)
    \/ StartSet(c)
    \/ StartSpawn(c)
    \/ StopClear(c)
    \/ StopJoin(c)
    \/ StopWait(c)
    \/ StopWrite(c)

NextStop ==
    \/ \E c \in active, v \in LoopDutyInputs : DutyEnter(c, 8, FALSE, v)
    \/ \E c \in active : StartCheck(c)
    \/ \E c \in active : StopCheck(c, "stop")
    \/ \E c \in active : CallStep(c)
    \/ \E t \in Threads : LoopStep(t)

SpecStop ==
    /\ Init
    /\ [][NextStop]_vars
    /\ \A t \in Threads : WF_vars(LoopStep(t))
    /\ \A c \in AllCallers : WF_vars(CallStep(c))

\* the same with two threads calling into one PWM, as the application and
\* the blink worker of an LEDRGB do
InitConc ==
    /\ \E f \in FreqValues : PWM_init(f)
    /\ active = AllCallers
    /\ pc = [c \in AllCallers |-> "idle"]
    /\ cur = [c \in AllCallers |-> NoCall]
    /\ lastDone = NoDone
    /\ lastOk = 0
    /\ ioFailed = FALSE
    /\ NoButton
    /\ NoLights

NextConc ==
    \/ \E c \in active : StartCheck(c)
    \/ \E c \in active : StartSet(c)
    \/ \E c \in active : StartSpawn(c)
    \/ \E c \in active : StopCheck(c, "stop")
    \/ \E c \in active : StopClear(c)
    \/ \E c \in active : StopJoin(c)
    \/ \E c \in active : StopWait(c)
    \/ \E c \in active : StopWrite(c)
    \/ \E t \in Threads : LoopStep(t)

SpecConc ==
    /\ InitConc
    /\ [][NextConc]_vars
    /\ \A t \in Threads : WF_vars(LoopStep(t))
    /\ \A c \in AllCallers : WF_vars(CallStep(c))

\* the duty setters of two resolutions called while the timing loop runs
NextRace ==
    \/ \E c \in active, res \in LoopResolutions, v \in LoopDutyInputs :
          DutyEnter(c, res, FALSE, v)
    \/ \E c \in active : DutyBody(c)
    \/ \E c \in active : StartCheck(c)
    \/ \E c \in active : StartSet(c)
    \/ \E c \in active : StartSpawn(c)
    \/ \E t \in Threads : LoopStep(t)

SpecRace == Init /\ [][NextRace]_vars

(***************************************************************************)
(* The duty accessors alone, over the four resolutions and over arguments  *)
(* on both sides of every range.                                           *)
(***************************************************************************)
NextDuty ==
    \/ \E c \in active, res \in Resolutions, v \in DutyInputs :
          DutyEnter(c, res, FALSE, v)
    \/ \E c \in active, res \in Resolutions : DutyEnter(c, res, TRUE, 0)
    \/ \E c \in active : DutyBody(c)

SpecDuty == Init /\ [][NextDuty]_vars

(***************************************************************************)
(* The push button (composants/button.py).  One caller uses the button;    *)
(* the monitor thread is started by the constructor.  Time is counted in   *)
(* ticks of the poll sleep: Tick lets one tick pass for every sleeper, and *)
(* the environment changes the level of the line at any moment.            *)
(***************************************************************************)
pwmAll == <<pwmVars, pinVars, thr, active, callVars>>

cbVars == <<when_pressed, when_released, when_clicked>>

\* the PWM while only the button is in use
NoPwm ==
    /\ PWM_init(1)
    /\ active = {}
    /\ pc = [c \in AllCallers |-> "idle"]
    /\ cur = [c \in AllCallers |-> NoCall]
    /\ lastDone = NoDone
    /\ lastOk = 0
    /\ ioFailed = FALSE

\* Button.__init__ with pull p on a line at level v
Button_init(p, v) ==
    /\ pull = p
    /\ raw = v
    /\ in_released = FALSE
    /\ _last_state = IsPressed(p, v)
    /\ _running = TRUE
    /\ when_pressed = FALSE
    /\ when_released = FALSE
    /\ when_clicked = FALSE
    /\ mon = [NoMon EXCEPT !.pc = "while", !.state = IsPressed(p, v),
                         !.first = IsPressed(p, v)]

InitButtonWith(pr) ==
    /\ NoPwm
    /\ \E p \in Pulls, v \in {0, 1} : Button_init(p, v)
    /\ bpc = "idle"
    /\ bcall = NoBCall
    /\ blast = NoBLast
    /\ prompt = pr
    /\ flip = NoFlip
    /\ NoLights

\* whether the callback of a kind is set
Registered(kind) ==
    CASE kind = "press" -> when_pressed
      [] kind = "release" -> when_released
      [] kind = "click" -> when_clicked

KindOf(pressed) == IF pressed THEN "press" ELSE "release"

\* a thread that has a statement to execute, not a sleep to finish
MonUrgent ==
    \/ mon.pc \in {"while", "sample1", "fire", "store"}
    \/ mon.pc \in {"debounce", "poll"} /\ mon.left = 0

CallerUrgent ==
    /\ bpc # "idle"
    /\ ~(bpc \in {"wfp_sleep", "wfr_sleep"} /\ bcall.left > 0)

\* the state the monitor holds stable: the one it has accepted, also while
\* it is between accepting it and storing it
StableState == IF mon.pc \in {"fire", "store"} THEN mon.state ELSE _last_state

\* the level of the line changes
EnvFlip ==
    /\ raw' = 1 - raw
    /\ LET newP == IsPressed(pull, 1 - raw)
           oldP == IsPressed(pull, raw)
       IN /\ flip' = [age |-> 0, fromStable |-> (oldP = StableState),
                      reg |-> Registered(KindOf(newP)),
                      pending |-> (mon.pc = "fire"), n |-> 0,
                      kind |-> "none"]
          /\ bcall' = IF bcall.op # "wait_for_click" THEN bcall
                      ELSE [bcall EXCEPT !.inp =
                              IF @ = 0 /\ newP /\ ~oldP THEN 1
                              ELSE IF @ = 1 /\ oldP /\ ~newP THEN 2 ELSE @]
    /\ mon' = IF mon.pc = "debounce"
              THEN [mon EXCEPT !.flips = MinOf(2, @ + 1)] ELSE mon
    /\ UNCHANGED <<pull, in_released, _last_state, _running, cbVars, bpc,
                   blast, prompt, pwmAll, lightVars>>

\* one tick passes
Tick ==
    /\ prompt => (~MonUrgent /\ ~CallerUrgent)
    /\ mon' = [mon EXCEPT !.left = MaxOf(0, @ - 1),
                          !.gap = IF mon.pc = "debounce"
                                  THEN MinOf(DebounceTicks, @ + 1) ELSE @]
    /\ bcall' = [bcall EXCEPT !.left = MaxOf(0, @ - 1)]
    /\ flip' = [flip EXCEPT !.age = MinOf(MaxAge, @ + 1)]
    /\ UNCHANGED <<pull, raw, in_released, _last_state, _running, cbVars,
                   bpc, blast, prompt, pwmAll, lightVars>>

(***************************************************************************)
(* Button._monitor.                                                        *)
(***************************************************************************)
\* while self._running:      (first, and after time.sleep(0.005))
MonWhile ==
    /\ mon.pc = "while" \/ (mon.pc = "poll" /\ mon.left = 0)
    /\ mon' = IF _running THEN [mon EXCEPT !.pc = "sample1"]
              ELSE [NoMon EXCEPT !.pc = "done"]
    /\ UNCHANGED <<pull, raw, in_released, _last_state, _running, cbVars,
                   bpc, bcall, blast, prompt, flip, pwmAll, lightVars>>

MonSample1NoDebounce ==
    /\ mon.pc = "sample1"
    /\ mon' = IF in_released THEN [NoMon EXCEPT !.pc = "ioerror"]
              ELSE LET st == IsPressed(pull, raw) IN
                   IF st # _last_state
                   THEN [mon EXCEPT !.pc = "fire", !.state = st,
                                    !.first = st]
                   ELSE [mon EXCEPT !.pc = "poll", !.state = st,
                                    !.first = st, !.left = PollTicks]
    /\ UNCHANGED <<pull, raw, in_released, _last_state, _running, cbVars,
                   bpc, bcall, blast, prompt, flip, pwmAll, lightVars>>

\* state = self.is_pressed(); if state != self._last_state:
\*     time.sleep(self.debounce_time)
MonSample1 ==
    /\ mon.pc = "sample1"
    /\ mon' = IF in_released THEN [NoMon EXCEPT !.pc = "ioerror"]
              ELSE LET st == IsPressed(pull, raw) IN
                   IF st # _last_state
                   THEN [mon EXCEPT !.pc = "debounce", !.state = st,
                                    !.first = st, !.left = DebounceTicks,
                                    !.gap = 0, !.flips = 0]
                   ELSE [mon EXCEPT !.pc = "poll", !.state = st,
                                    !.first = st, !.left = PollTicks]
    /\ UNCHANGED <<pull, raw, in_released, _last_state, _running, cbVars,
                   bpc, bcall, blast, prompt, flip, pwmAll, lightVars>>

\* state = self.is_pressed(); if state != self._last_state:
MonSample2 ==
    /\ mon.pc = "debounce"
    /\ mon.left = 0
    /\ mon' = IF in_released THEN [NoMon EXCEPT !.pc = "ioerror"]
              ELSE LET st == IsPressed(pull, raw) IN
                   IF st # _last_state
                   THEN [mon EXCEPT !.pc = "fire", !.state = st]
                   ELSE [mon EXCEPT !.pc = "poll", !.state = st,
                                    !.first = st, !.left = PollTicks,
                                    !.gap = 0, !.flips = 0]
    /\ UNCHANGED <<pull, raw, in_released, _last_state, _running, cbVars,
                   bpc, bcall, blast, prompt, flip, pwmAll, lightVars>>

\* if state: self._on_press() else: self._on_release()
MonFire ==
    /\ mon.pc = "fire"
    /\ mon' = [mon EXCEPT !.pc = "store"]
    /\ flip' = IF flip.pending THEN [flip EXCEPT !.pending = FALSE]
               ELSE IF Registered(KindOf(mon.state))
               THEN [flip EXCEPT !.n = MinOf(2, @ + 1),
                                 !.kind = KindOf(mon.state)]
               ELSE flip
    /\ UNCHANGED <<pull, raw, in_released, _last_state, _running, cbVars,
                   bpc, bcall, blast, prompt, pwmAll, lightVars>>

MonStoreNoUpdate ==
    /\ mon.pc = "store"
    /\ mon' = [mon EXCEPT !.pc = "poll", !.left = PollTicks, !.gap = 0,
                          !.flips = 0]
    /\ UNCHANGED <<pull, raw, in_released, _last_state, _running, cbVars,
                   bpc, bcall, blast, prompt, flip, pwmAll, lightVars>>

\* self._last_state = state; then time.sleep(0.005)
MonStore ==
    /\ mon.pc = "store"
    /\ _last_state' = mon.state
    /\ mon' = [mon EXCEPT !.pc = "poll", !.left = PollTicks, !.gap = 0,
                          !.flips = 0]
    /\ UNCHANGED <<pull, raw, in_released, _running, cbVars, bpc, bcall,
                   blast, prompt, flip, pwmAll, lightVars>>

(***************************************************************************)
(* The calls of the caller.                                                *)
(***************************************************************************)
BCall(op) == [NoBCall EXCEPT !.op = op]

\* the callback of a kind is invoked from the caller's call, if it is set
Invoke(call, kind) ==
    IF Registered(kind) THEN [call EXCEPT !.log = Append(@, kind)] ELSE call

BReturn(call, outcome) ==
    /\ bpc' = "idle"
    /\ bcall' = NoBCall
    /\ blast' = [op |-> call.op, outcome |-> outcome, log |-> call.log,
                 rel |-> call.rel, res |-> call.res,
                 afterClose |-> (call.op = "close" /\ blast.op = "close")]

BGoto(label, call) ==
    /\ bpc' = label
    /\ bcall' = call
    /\ UNCHANGED blast

\* button.when_pressed = f, and the like
SetCallback(kind) ==
    /\ bpc = "idle"
    /\ ~Registered(kind)
    /\ when_pressed' = (when_pressed \/ kind = "press")
    /\ when_released' = (when_released \/ kind = "release")
    /\ when_clicked' = (when_clicked \/ kind = "click")
    /\ BReturn(BCall("set_callback"), "ok")
    /\ UNCHANGED <<pull, raw, in_released, _last_state, _running, mon,
                   prompt, flip, pwmAll, lightVars>>

\* Button.is_pressed called by the caller: val = self.read()
IsPressedRead ==
    /\ bpc = "idle"
    /\ IF in_released
       THEN BReturn(BCall("is_pressed"), "raised")
       ELSE BGoto("isp_map", [BCall("is_pressed") EXCEPT !.val = raw])
    /\ UNCHANGED <<pull, raw, in_released, _last_state, _running, cbVars,
                   mon, prompt, flip, pwmAll, lightVars>>

\* ... and the value it returns for val
IsPressedMap ==
    /\ bpc = "isp_map"
    /\ BReturn([bcall EXCEPT !.res = IsPressed(pull, bcall.val)], "ok")
    /\ UNCHANGED <<pull, raw, in_released, _last_state, _running, cbVars,
                   mon, prompt, flip, pwmAll, lightVars>>

\* Button.stop, also as the first statement of Button.close
ButtonStop(op) ==
    /\ bpc = "idle"
    /\ _running' = FALSE
    /\ IF op = "close" THEN BGoto("close_cb", BCall(op))
                       ELSE BReturn(BCall(op), "ok")
    /\ UNCHANGED <<pull, raw, in_released, _last_state, cbVars, mon, prompt,
                   flip, pwmAll, lightVars>>

\* Button.close: self.release()
CloseCallback ==
    /\ bpc = "close_cb"
    /\ BGoto("close_release", Invoke(bcall, "release"))
    /\ UNCHANGED <<pull, raw, in_released, _last_state, _running, cbVars,
                   mon, prompt, flip, pwmAll, lightVars>>

\* Button.close: super().close(), PinIn.close.  On a request already
\* released, gpiod 2 raises and gpiod 1 releases once more.
ButtonRelease ==
    /\ bpc = "close_release"
    /\ in_released' = TRUE
    /\ \E raises \in IF in_released THEN BOOLEAN ELSE {FALSE} :
         IF raises THEN BReturn(bcall, "raised")
         ELSE BReturn([bcall EXCEPT !.rel = @ + 1], "ok")
    /\ UNCHANGED <<pull, raw, _last_state, _running, cbVars, mon, prompt,
                   flip, pwmAll, lightVars>>

\* wait_for_press, wait_for_release, wait_for_click begin
WaitBegin(op) ==
    /\ bpc = "idle"
    /\ BGoto(IF op = "wait_for_release" THEN "wfr_poll" ELSE "wfp_poll",
             BCall(op))
    /\ UNCHANGED <<pull, raw, in_released, _last_state, _running, cbVars,
                   mon, prompt, flip, pwmAll, lightVars>>

\* while not self.is_pressed(): time.sleep(0.005)
WaitPressPoll ==
    /\ bpc = "wfp_poll" \/ (bpc = "wfp_sleep" /\ bcall.left = 0)
    /\ IF in_released
       THEN BReturn(bcall, "raised")
       ELSE LET res == IsPressed(pull, raw) IN
            IF res
            THEN BGoto("wfp_cb", [bcall EXCEPT !.res = res, !.sawP = TRUE])
            ELSE BGoto("wfp_sleep", [bcall EXCEPT !.res = res,
                                                  !.left = PollTicks])
    /\ UNCHANGED <<pull, raw, in_released, _last_state, _running, cbVars,
                   mon, prompt, flip, pwmAll, lightVars>>

\* self.press()
WaitPressCallback ==
    /\ bpc = "wfp_cb"
    /\ LET call == Invoke(bcall, "press") IN
         IF bcall.op = "wait_for_click" THEN BGoto("wfr_poll", call)
                                        ELSE BReturn(call, "ok")
    /\ UNCHANGED <<pull, raw, in_released, _last_state, _running, cbVars,
                   mon, prompt, flip, pwmAll, lightVars>>

\* while self.is_pressed(): time.sleep(0.005)
WaitReleasePoll ==
    /\ bpc = "wfr_poll" \/ (bpc = "wfr_sleep" /\ bcall.left = 0)
    /\ IF in_released
       THEN BReturn(bcall, "raised")
       ELSE LET res == IsPressed(pull, raw) IN
            IF ~res
            THEN BGoto("wfr_cb", [bcall EXCEPT !.res = res, !.sawR = TRUE])
            ELSE BGoto("wfr_sleep", [bcall EXCEPT !.res = res,
                                                  !.left = PollTicks])
    /\ UNCHANGED <<pull, raw, in_released, _last_state, _running, cbVars,
                   mon, prompt, flip, pwmAll, lightVars>>

\* self.release()
WaitReleaseCallback ==
    /\ bpc = "wfr_cb"
    /\ LET call == Invoke(bcall, "release") IN
         IF bcall.op = "wait_for_click" THEN BGoto("click_cb", call)
                                        ELSE BReturn(call, "ok")
    /\ UNCHANGED <<pull, raw, in_released, _last_state, _running, cbVars,
                   mon, prompt, flip, pwmAll, lightVars>>

\* self.click()
ClickCallback ==
    /\ bpc = "click_cb"
    /\ BReturn(Invoke(bcall, "click"), "ok")
    /\ UNCHANGED <<pull, raw, in_released, _last_state, _running, cbVars,
                   mon, prompt, flip, pwmAll, lightVars>>

MonitorStep ==
    \/ MonWhile
    \/ MonSample1
    \/ MonSample2
    \/ MonFire
    \/ MonStore

CloseStep ==
    \/ CloseCallback
    \/ ButtonRelease

WaitStep ==
    \/ WaitPressPoll
    \/ WaitPressCallback
    \/ WaitReleasePoll
    \/ WaitReleaseCallback
    \/ ClickCallback

\* the button with its monitor, stopped and closed by the caller
NextButton ==
    \/ EnvFlip
    \/ Tick
    \/ MonitorStep
    \/ \E kind \in {"press", "release"} : SetCallback(kind)
    \/ IsPressedRead
    \/ IsPressedMap
    \/ ButtonStop("stop")
    \/ ButtonStop("close")
    \/ CloseStep

\* threads are delayed at will
SpecButton == InitButtonWith(FALSE) /\ [][NextButton]_vars

\* threads run without delay: a sleep lasts exactly its ticks
SpecButtonTimed == InitButtonWith(TRUE) /\ [][NextButton]_vars

\* the button with its monitor, the caller in the blocking waits
NextWait ==
    \/ EnvFlip
    \/ Tick
    \/ MonitorStep
    \/ \E kind \in {"press", "release", "click"} : SetCallback(kind)
    \/ \E op \in {"wait_for_press", "wait_for_release", "wait_for_click"} :
          WaitBegin(op)
    \/ WaitStep

\* every thread keeps running and time keeps passing; the level of the
\* line changes or not as the environment pleases
SpecWait ==
    /\ InitButtonWith(TRUE)
    /\ [][NextWait]_vars
    /\ WF_vars(MonitorStep)
    /\ WF_vars(WaitStep)
    /\ WF_vars(Tick)

(***************************************************************************)
(* The LED (composants/led.py), a PinOut with blink workers.  One caller   *)
(* uses the LED; each blink() or blink_times() that passes its test starts *)
(* a worker thread.  A sleep of a worker is the delay before its next      *)
(* step.                                                                   *)
(***************************************************************************)
otherVars == <<pwmVars, thr, active, callVars, btnVars, rgbVars>>

\* LED.__init__
InitLed ==
    /\ NoPwm
    /\ NoButton
    /\ NoLed
    /\ NoRgb

WorkerAlive(w) == lwk[w].pc \in {"begin", "test", "on", "off", "end"}

AliveWorkers == {w \in Workers : WorkerAlive(w)}

FreeWorkers == Workers \ AliveWorkers

LReturn(call, outcome, spawned) ==
    /\ lpc' = "idle"
    /\ lcall' = NoLCall
    /\ llast' = [op |-> call.op, outcome |-> outcome, spawned |-> spawned,
                 offDone |-> (call.op \in {"off", "close"}
                               /\ outcome = "ok")]

LGoto(label, call) ==
    /\ lpc' = label
    /\ lcall' = call
    /\ llast' = IF call.op = "blink" THEN [llast EXCEPT !.offDone = FALSE]
                ELSE llast

\* LED.blink / LED.blink_times: if self.__blinking: return
LedBlinkCheck(kind, count) ==
    /\ lpc = "idle"
    /\ FreeWorkers # {}
    /\ LET call == [op |-> "blink", kind |-> kind, count |-> count] IN
         IF blinking
         THEN LReturn(call, "ok", FALSE)
         ELSE LGoto("blink_spawn", call)
    /\ UNCHANGED <<blinking, blink_thread, lwk, pinVars, otherVars>>

\* self.__blink_thread = threading.Thread(...); self.__blink_thread.start()
LedBlinkSpawn ==
    /\ lpc = "blink_spawn"
    /\ FreeWorkers # {}
    /\ LET w == CHOOSE x \in FreeWorkers : \A y \in FreeWorkers : x <= y IN
         /\ blink_thread' = w
         /\ lwk' = [lwk EXCEPT ![w] = [pc |-> "begin", left |-> lcall.count,
                                       kind |-> lcall.kind]]
    /\ LReturn(lcall, "ok", TRUE)
    /\ UNCHANGED <<blinking, pinVars, otherVars>>

\* LED.off, also as the first statement of LED.close:
\* self.__blinking = False
LedOffClear(op) ==
    /\ lpc = "idle"
    /\ blinking' = FALSE
    /\ LGoto("off_write", [NoLCall EXCEPT !.op = op])
    /\ UNCHANGED <<blink_thread, lwk, pinVars, otherVars>>

\* LED.off: super().write(0)
LedOffWrite ==
    /\ lpc = "off_write"
    /\ \E ok \in WriteOutcomes :
         /\ PinOut_write(0, ok)
         /\ IF ~ok THEN LReturn(lcall, "raised", FALSE)
            ELSE IF lcall.op = "close" THEN LGoto("close_release", lcall)
            ELSE LReturn(lcall, "ok", FALSE)
    /\ UNCHANGED <<blinking, blink_thread, lwk, otherVars>>

\* LED.close: super().close()
LedCloseRelease ==
    /\ lpc = "close_release"
    /\ PinOut_close
    /\ LReturn(lcall, "ok", FALSE)
    /\ UNCHANGED <<blinking, blink_thread, lwk, otherVars>>

\* _blink / _blink_times: self.__blinking = True
WorkerBegin(w) ==
    /\ lwk[w].pc = "begin"
    /\ blinking' = TRUE
    /\ lwk' = [lwk EXCEPT ![w].pc = "test"]
    /\ UNCHANGED <<blink_thread, lpc, lcall, llast, pinVars, otherVars>>

\* _blink: for _ in range(count): if not self.__blinking: break
\* _blink_times: while self.__blinking and time.time() < end_time
WorkerTest(w) ==
    /\ lwk[w].pc = "test"
    /\ IF lwk[w].kind = "count"
       THEN lwk' = [lwk EXCEPT ![w] =
                      IF @.left = 0 THEN [@ EXCEPT !.pc = "end"]
                      ELSE IF ~blinking
                      THEN [@ EXCEPT !.pc = "end", !.left = 0]
                      ELSE [@ EXCEPT !.pc = "on", !.left = @ - 1]]
       ELSE \E expired \in BOOLEAN :
              lwk' = [lwk EXCEPT ![w].pc =
                        IF blinking /\ ~expired THEN "on" ELSE "end"]
    /\ UNCHANGED <<blinking, blink_thread, lpc, lcall, llast, pinVars,
                   otherVars>>

\* self.write(1); time.sleep(interval)
WorkerOn(w) ==
    /\ lwk[w].pc = "on"
    /\ \E ok \in WriteOutcomes :
         /\ PinOut_write(1, ok)
         /\ lwk' = [lwk EXCEPT ![w] =
                      IF ok THEN [@ EXCEPT !.pc = "off"]
                      ELSE [NoWorker EXCEPT !.pc = "ioerror"]]
    /\ UNCHANGED <<blinking, blink_thread, lpc, lcall, llast, otherVars>>

\* self.write(0); time.sleep(interval)
WorkerOff(w) ==
    /\ lwk[w].pc = "off"
    /\ \E ok \in WriteOutcomes :
         /\ PinOut_write(0, ok)
         /\ lwk' = [lwk EXCEPT ![w] =
                      IF ok THEN [@ EXCEPT !.pc = "test"]
                      ELSE [NoWorker EXCEPT !.pc = "ioerror"]]
    /\ UNCHANGED <<blinking, blink_thread, lpc, lcall, llast, otherVars>>

\* self.__blinking = False, the last statement of the worker
WorkerEnd(w) ==
    /\ lwk[w].pc = "end"
    /\ blinking' = FALSE
    /\ lwk' = [lwk EXCEPT ![w] = [NoWorker EXCEPT !.pc = "done"]]
    /\ UNCHANGED <<blink_thread, lpc, lcall, llast, pinVars, otherVars>>

WorkerStep(w) ==
    \/ WorkerBegin(w)
    \/ WorkerTest(w)
    \/ WorkerOn(w)
    \/ WorkerOff(w)
    \/ WorkerEnd(w)

NextLed ==
    \/ \E count \in BlinkCounts : LedBlinkCheck("count", count)
    \/ LedBlinkCheck("times", 0)
    \/ LedBlinkSpawn
    \/ LedOffClear("off")
    \/ LedOffClear("close")
    \/ LedOffWrite
    \/ LedCloseRelease
    \/ \E w \in Workers : WorkerStep(w)

SpecLed == InitLed /\ [][NextLed]_vars

(***************************************************************************)
(* The RGB LED (composants/ledrgb.py) over three PWMs.  Of each PWM the    *)
(* model keeps what color() sets: the duty and the running flag.  One      *)
(* caller uses the RGB LED, and a blink() is taken up while no worker of   *)
(* an earlier one is alive; a call of color() or off() is one step.        *)
(***************************************************************************)
restVars == <<pwmVars, pinVars, thr, active, callVars, btnVars, ledVars>>

\* LEDRGB.__init__
InitRgb ==
    /\ NoPwm
    /\ NoButton
    /\ NoLed
    /\ NoRgb

RWorkerAlive == rwk.pc \in {"begin", "test", "on", "off", "end"}

\* PWM.duty_cycle_16(v) and PWM.start() on one channel
ChannelSet(v) ==
    [duty_value |-> Clamp(v, Max16), duty_max |-> Max16, running |-> TRUE]

\* the three PWMs after color(col), col already clamped
ChannelsOf(col) == [c \in Channels |-> ChannelSet(DutyOfLevel(col[c]))]

\* LEDRGB.color(r, g, b)
LEDRGB_color(col) ==
    LET clamped == [c \in Channels |-> ClampLevel(col[c])] IN
      /\ _color' = clamped
      /\ chan' = ChannelsOf(clamped)

RReturn(op, spawned) ==
    /\ rpc' = "idle"
    /\ rcall' = NoRCall
    /\ rlast' = [op |-> op, spawned |-> spawned]

\* LEDRGB.color called by the caller
RgbColor(col) ==
    /\ rpc = "idle"
    /\ LEDRGB_color(col)
    /\ RReturn("color", FALSE)
    /\ UNCHANGED <<_blinking, _blink_thread, rwk, restVars>>

\* LEDRGB.off: self._blinking = False; self.color(0.0, 0.0, 0.0)
LEDRGB_off ==
    /\ _blinking' = FALSE
    /\ LEDRGB_color(Black)

RgbOff ==
    /\ rpc = "idle"
    /\ LEDRGB_off
    /\ RReturn("off", FALSE)
    /\ UNCHANGED <<_blink_thread, rwk, restVars>>

\* LEDRGB.blink: if self._blinking: return
RgbBlinkCheck(count) ==
    /\ rpc = "idle"
    /\ ~RWorkerAlive
    /\ IF _blinking
       THEN RReturn("blink", FALSE)
       ELSE /\ rpc' = "blink_spawn"
            /\ rcall' = [op |-> "blink", count |-> count]
            /\ UNCHANGED rlast
    /\ UNCHANGED <<_color, _blinking, _blink_thread, chan, rwk, restVars>>

\* self._blink_thread = threading.Thread(...); self._blink_thread.start()
RgbBlinkSpawn ==
    /\ rpc = "blink_spawn"
    /\ _blink_thread' = 1
    /\ rwk' = [NoRWorker EXCEPT !.pc = "begin", !.left = rcall.count,
                                !.count = rcall.count, !.col0 = _color]
    /\ RReturn("blink", TRUE)
    /\ UNCHANGED <<_color, _blinking, chan, restVars>>

\* _blink: self._blinking = True
RWorkerBegin ==
    /\ rwk.pc = "begin"
    /\ _blinking' = TRUE
    /\ rwk' = [rwk EXCEPT !.pc = "test"]
    /\ UNCHANGED <<_color, _blink_thread, chan, rpc, rcall, rlast, restVars>>

\* for _ in range(count): if not self._blinking: break
RWorkerTest ==
    /\ rwk.pc = "test"
    /\ rwk' = IF rwk.left = 0 THEN [rwk EXCEPT !.pc = "end"]
              ELSE IF ~_blinking THEN [rwk EXCEPT !.pc = "end", !.left = 0]
              ELSE [rwk EXCEPT !.pc = "on", !.left = @ - 1]
    /\ UNCHANGED <<_color, _blinking, _blink_thread, chan, rpc, rcall, rlast,
                   restVars>>

\* self.color(*self._color); time.sleep(interval)
RWorkerOn ==
    /\ rwk.pc = "on"
    /\ LEDRGB_color(_color)
    /\ rwk' = [rwk EXCEPT !.pc = "off", !.cycles = @ + 1,
                          !.good = (@ /\ chan' = ChannelsOf(rwk.col0))]
    /\ UNCHANGED <<_blinking, _blink_thread, rpc, rcall, rlast, restVars>>

\* self.off(); time.sleep(interval)
RWorkerOff ==
    /\ rwk.pc = "off"
    /\ LEDRGB_off
    /\ rwk' = [rwk EXCEPT !.pc = "test"]
    /\ UNCHANGED <<_blink_thread, rpc, rcall, rlast, restVars>>

\* self._blinking = False, the last statement of the worker
RWorkerEnd ==
    /\ rwk.pc = "end"
    /\ _blinking' = FALSE
    /\ rwk' = [rwk EXCEPT !.pc = "done"]
    /\ UNCHANGED <<_color, _blink_thread, chan, rpc, rcall, rlast, restVars>>

NextRgb ==
    \/ \E col \in [Channels -> ColorInputs] : RgbColor(col)
    \/ RgbOff
    \/ \E count \in BlinkCounts : RgbBlinkCheck(count)
    \/ RgbBlinkSpawn
    \/ RWorkerBegin
    \/ RWorkerTest
    \/ RWorkerOn
    \/ RWorkerOff
    \/ RWorkerEnd

SpecRgb == InitRgb /\ [][NextRgb]_vars

(***************************************************************************)
(* Properties.                                                             *)
(***************************************************************************)

\* C1: whatever start(), stop() and close() calls one caller issues, at most
\* one timing loop is alive; a start() on a running PWM creates no second one.
C1_AtMostOneLoop == Cardinality(AliveThreads) <= 1

\* a start() has returned on a running PWM, and its loop is about to write
C1_Witness ==
    /\ Idle
    /\ lastDone.op = "start"
    /\ ~lastDone.spawned
    /\ running
    /\ \E t \in Threads : thr[t].pc = "on" /\ FPositive(thr[t].on_time)

\* C2: between calls of the duty accessors (setters and queries, in any mix
\* of resolutions), 0 <= duty_numerator <= duty_denominator.
C2_DutyInRange == Idle => (0 <= duty_value /\ duty_value <= duty_max)

\* C3: a duty query returns the current numerator and leaves the
\* denominator as it was when the query was called.
C3_QueryKeepsDenominator ==
    (Idle /\ lastDone.op = "query")
        => (lastDone.ret = duty_value /\ duty_max = lastDone.max0)

\* C4: setting the duty to n with the setter of resolution d and reading it
\* back with the accessor of the same resolution returns clamp(n, 0, d), and
\* the denominator is d.
C4_SetThenReadBack ==
    (Idle /\ lastDone.op = "query" /\ lastDone.pres = lastDone.res)
        => LET d == CASE lastDone.res = 8 -> 255
                      [] lastDone.res = 10 -> 1023
                      [] lastDone.res = 12 -> 4095
                      [] lastDone.res = 16 -> 65535
               n == lastDone.parg
           IN /\ lastDone.ret = (IF n < 0 THEN 0 ELSE IF n > d THEN d ELSE n)
              /\ duty_max = d

\* a value above the range has been set and read back at 12 bits
C4_Witness ==
    /\ Idle
    /\ lastDone.op = "query"
    /\ lastDone.res = 12
    /\ lastDone.pres = 12
    /\ lastDone.parg > 4095

\* C5: every period the timing loop begins uses the period 1/frequency of the
\* frequency stored at that moment (a frequency set while the loop runs is
\* in force from the next period on); stated for positive frequencies.
C5_FrequencyAtNextPeriod ==
    [][\A t \in Threads :
          (/\ thr[t].pc = "while" /\ thr'[t].pc = "calc"
           /\ frequency > 0 /\ FPositive(thr[t].period))
              => FEqual(thr[t].period, Frac(1, frequency))]_vars

\* C6: once the timing loop has ended on an I/O error of a line write,
\* running is false.
C6_IOErrorClearsRunning ==
    \A t \in Threads :
        (Idle /\ thread = t /\ thr[t].pc = "ioerror") => ~running

\* C7: running implies frequency > 0, and no timing loop has met a zero or
\* negative frequency when it computed its period.
C7_RunningFrequencyPositive ==
    /\ running => frequency > 0
    /\ \A t \in Threads :
          /\ thr[t].pc # "zerodiv"
          /\ Alive(t) => FSign(thr[t].period) >= 0

\* C8: when a stop() has returned that followed a stop(), the PWM is not
\* running, no timing loop is alive, the recorded last value is 0, the
\* second call has written nothing and has joined nothing; the line is at 0
\* as well, unless a write of the line has raised.
C8_StopTwice ==
    (Idle /\ lastDone.op = "stop" /\ lastDone.afterStop)
        => /\ ~running
           /\ AliveThreads = {}
           /\ state = 0
           /\ ~ioFailed => line = 0
           /\ ~lastDone.wrote
           /\ ~lastDone.joined
           /\ lastDone.outcome = "ok"

\* two stop() in a row on a PWM whose loop had driven the line high
C8_Witness ==
    /\ Idle
    /\ lastDone.op = "stop"
    /\ lastDone.afterStop
    /\ ~ioFailed
    /\ \E t \in Threads : thr[t].pc = "done"
    /\ duty_value > 0

\* C9: the line is released only when no timing loop is alive, and no write
\* changes the line once it is released.
C9_ReleaseAfterLoopExit ==
    [][/\ (released' /\ ~released) => AliveThreads = {}
       /\ released => line' = line]_vars

\* a close() has released the line after waiting for a live timing loop
C9_Witness ==
    /\ Idle
    /\ released
    /\ lastDone.op = "close"
    /\ lastDone.blocked
    /\ lastDone.outcome = "ok"

\* C10: the recorded last value of the pin is the value of the most recent
\* successful write (the initial value before any): a write that raises
\* leaves it unchanged.
C10_StateIsLastSuccessfulWrite == state = lastOk

(***************************************************************************)
(* The push button.                                                        *)
(***************************************************************************)
\* the monitor invokes the callback of an accepted transition in this step
MonitorInvokes ==
    /\ mon.pc = "fire"
    /\ mon'.pc = "store"
    /\ Registered(KindOf(mon.state))

\* C11: when the monitor loop accepts a transition, _last_state holds the
\* accepted state already when the callback is invoked, so that the callback
\* reads the post-transition value.
C11_StateUpdatedBeforeCallback ==
    [][MonitorInvokes => _last_state = mon.state]_vars

\* the monitor takes the sample that follows the debounce sleep in this step
MonitorSecondSample ==
    /\ mon.pc = "debounce"
    /\ mon.left = 0
    /\ mon'.pc # "debounce"

\* C12: the monitor invokes on_press or on_release only when two samples
\* taken one debounce time apart both differ from _last_state; a level that
\* differs at the first sample and has gone back at the second one triggers
\* no callback and leaves _last_state unchanged.
C12_DebounceRejectsNoise ==
    [][/\ MonitorInvokes =>
            /\ mon.first # _last_state
            /\ mon.state # _last_state
            /\ mon.gap >= DebounceTicks
       /\ (MonitorSecondSample /\ mon.flips = 1) =>
            /\ mon'.pc # "fire"
            /\ _last_state' = _last_state
            /\ flip'.n = flip.n]_vars

\* a callback has been invoked after the debounce sleep
C12_Witness ==
    /\ mon.pc = "store"
    /\ mon.gap >= DebounceTicks
    /\ flip.n = 1

\* the level changed away from the stable state, with the callback of the
\* new level set, and has stayed for more than the debounce time plus one
\* poll sleep, the monitor loop running on an open line
SustainedFlip ==
    /\ flip.fromStable
    /\ flip.reg
    /\ flip.age > DebounceTicks + PollTicks
    /\ _running
    /\ ~in_released

\* C13: with the monitor loop running, a level change that is sustained for
\* more than the debounce time plus one poll sleep has triggered exactly one
\* callback of the monitor, on_press for a change to pressed and on_release
\* for a change to released, and none more while the level stays.
C13_SustainedFlipOneCallback ==
    SustainedFlip =>
        /\ flip.n = 1
        /\ flip.kind = KindOf(IsPressed(pull, raw))

\* a press sustained long enough, its one on_press invoked
C13_Witness ==
    /\ SustainedFlip
    /\ flip.n = 1
    /\ flip.kind = "press"
    /\ mon.pc = "poll"

\* C14: close() leaves _running false and the line released, and is
\* idempotent: a close() that follows a close() returns normally, having
\* invoked no callback and made no further release of the line.
C14_CloseIdempotent ==
    (bpc = "idle" /\ blast.op = "close") =>
        /\ ~_running
        /\ in_released
        /\ blast.afterClose =>
              /\ blast.outcome = "ok"
              /\ blast.log = <<>>
              /\ blast.rel = 0

\* the callbacks wait_for_click is to invoke, in their order
ClickCallbacks == SelectSeq(<<"press", "release", "click">>, Registered)

\* C15: once the button has become pressed and later released during a
\* wait_for_click(), the call returns; it reaches its return only after a
\* sample that was pressed and a later one that was not, and has then
\* invoked on_press, on_release and on_click once each in that order.
C15_WaitForClickReturns ==
    /\ (bcall.op = "wait_for_click" /\ bcall.inp = 2) ~> (bpc = "idle")
    /\ [](bpc = "click_cb" => (bcall.sawP /\ bcall.sawR))
    /\ []((bpc = "idle" /\ blast.op = "wait_for_click"
                        /\ blast.outcome = "ok")
            => blast.log = ClickCallbacks)

\* C17: is_pressed() maps the level v it has read to the pressed state by
\* polarity: pull UP gives v = 0, pull DOWN gives v = 1, no pull gives
\* bool(v); the result is a boolean, and neither the read nor the mapping
\* changes the state of the monitor.
C17_IsPressedPolarity ==
    [][/\ (bpc = "idle" /\ bpc' = "isp_map") =>
            /\ bcall'.val = raw
            /\ UNCHANGED <<_last_state, _running, mon, cbVars>>
       /\ (bpc = "isp_map" /\ bpc' = "idle") =>
            /\ blast'.res \in BOOLEAN
            /\ blast'.res = (\/ pull = "UP" /\ bcall.val = 0
                             \/ pull = "DOWN" /\ bcall.val = 1
                             \/ pull = "NONE" /\ bcall.val = 1)
            /\ UNCHANGED <<_last_state, _running, mon, cbVars>>]_vars

\* is_pressed() has returned true on a pull-up line
C17_Witness ==
    /\ bpc = "idle"
    /\ blast.op = "is_pressed"
    /\ blast.outcome = "ok"
    /\ blast.res
    /\ pull = "UP"

\* the monitor reads the line in this step
MonitorReads ==
    \/ mon.pc = "sample1" /\ mon'.pc # "sample1"
    \/ MonitorSecondSample

\* C20: once close() has returned (the line is released), the monitor loop
\* invokes no callback and makes no read of the released line.
C20_QuietAfterClose ==
    [][in_released => (~MonitorInvokes /\ ~MonitorReads)]_vars

(***************************************************************************)
(* The PWM under fair scheduling and with concurrent callers.              *)
(***************************************************************************)
\* C16: under fair scheduling every stop() that has found the PWM running
\* returns in the end, with no timing loop alive: the loop tests the flag
\* once per period and exits after the period in progress.
C16_StopTerminates ==
    \A c \in AllCallers :
        (pc[c] = "stop_clear") ~> (pc[c] = "idle" /\ AliveThreads = {})

\* stop() has cleared the flag and waits for a timing loop that is alive
C16_Witness ==
    /\ pc["app"] = "stop_wait"
    /\ ~running
    /\ Alive(cur["app"].jt)

\* C18: with start() and stop() called from two threads at once, at most one
\* timing loop is alive at any time, and every stop() that has found the
\* PWM running returns.
C18_ConcurrentStartStop ==
    /\ [](Cardinality(AliveThreads) <= 1)
    /\ \A c \in AllCallers :
          (pc[c] = "stop_clear") ~> (pc[c] = "idle")

\* C19: in every cycle of the timing loop (of positive period) the on-time
\* and the off-time computed lie between 0 and the period, the off-time
\* being the period less the on-time, also when a duty setter of another
\* resolution runs between the loop's reads of numerator and denominator.
C19_LoopTimesInPeriod ==
    \A t \in Threads :
        (thr[t].pc = "on" /\ FPositive(thr[t].period)) =>
            /\ FSign(thr[t].on_time) >= 0
            /\ FSign(thr[t].off_time) >= 0

(***************************************************************************)
(* The LED and the RGB LED.                                                *)
(***************************************************************************)
\* C22: at most one blink worker of the LED is active at any time; a
\* blink() or blink_times() called while a blink requested earlier has not
\* finished creates no worker, also when the earlier worker has not begun.
C22_AtMostOneBlinkWorker ==
    /\ Cardinality(AliveWorkers) <= 1
    /\ lpc = "blink_spawn" => AliveWorkers = {}

\* a blink worker writes the line in this step
WorkerWrites ==
    \E w \in Workers : lwk[w].pc \in {"on", "off"} /\ lwk'[w].pc # lwk[w].pc

\* C23: once LED.close() has released the line, no blink worker writes it.
C23_NoWriteAfterRelease ==
    [][released => ~WorkerWrites]_vars

\* a blink worker begins an on/off cycle in this step
WorkerStartsCycle ==
    \E w \in Workers : lwk[w].pc = "test" /\ lwk'[w].pc = "on"

\* C24: once off() has returned, a blink worker requested before it, looping
\* or not yet executing, begins no new on/off cycle.
C24_OffCancelsBlink ==
    [][llast.offDone => ~WorkerStartsCycle]_vars

\* C21: a blink(count) of the RGB LED called with a colour that is not
\* black, with no other call made until its worker has ended, has performed
\* count on/off cycles, and each on-phase has set the three duties to the
\* colour that was current when blink() was called.
C21_BlinkCyclesInColour ==
    (/\ rwk.pc = "done"
     /\ rpc = "idle"
     /\ rlast.op = "blink"
     /\ rlast.spawned
     /\ rwk.col0 # Black)
    => (rwk.cycles = rwk.count /\ rwk.good)

====
